---- MODULE Spec2Model ----
(***************************************************************************)
(* Model of the memtable of be/src/olap/memtable.cpp: one schema with a    *)
(* key column (column 0) and a value column (column 1), an arena of row    *)
(* buffers addressed by handle, the skip list as the sequence of resident  *)
(* handles in key order, and the rowset writer as the log of the calls it  *)
(* received.  The value column aggregates with SUM on an AGG_KEYS table,   *)
(* with REPLACE on a UNIQUE_KEYS table and not at all on a DUP_KEYS table. *)
(***************************************************************************)
EXTENDS Integers, Sequences, FiniteSets, TLC

\* ------------------------------------------------------------------ bounds
\* Key values are 1..MaxKey (and null).
MaxKey == 1
\* Number of insert, flush and close calls made on one memtable.
MaxOps == 4

\* --------------------------------------------------------------- constants
DUP_KEYS == "DUP_KEYS"
UNIQUE_KEYS == "UNIQUE_KEYS"
AGG_KEYS == "AGG_KEYS"
KeysType == {DUP_KEYS, UNIQUE_KEYS, AGG_KEYS}

OLAP_SUCCESS == "OLAP_SUCCESS"
OLAP_ERR_WRITER == "OLAP_ERR_WRITER"

VARIABLES
    _keys_type,    \* table semantics, fixed at construction
    mem,           \* the row buffers the pool handed out, by handle
    _tuple_buf,    \* handle of the scratch buffer the next insert decodes into
    _skip_list,    \* handles of the resident records, in iteration order
    consumption,   \* bytes the pool's tracker accounts for
    trace,         \* finalize calls and rowset writer calls, in call order
    inserted,      \* the tuples given to insert so far, in call order
    flush_calls,   \* number of flush/close calls so far
    last_flush,    \* what the most recent flush/close call saw and returned
    insert_ret     \* what the most recent insert call saw and returned

vars == << _keys_type, mem, _tuple_buf, _skip_list, consumption, trace,
           inserted, flush_calls, last_flush, insert_ret >>

\* ------------------------------------------------------------ cells, rows
NullCell == [null |-> TRUE, val |-> 0]
ValueCell(v) == [null |-> FALSE, val |-> v]
KeyCells == {NullCell} \cup {ValueCell(k) : k \in 1..MaxKey}
ValCells == {NullCell, ValueCell(1), ValueCell(2)}

\* A decoded tuple: per slot a null indicator and a value.
Tuples == [k : KeyCells, v : ValCells]

\* Bytes of a buffer the pool has just handed out; every cell of it is
\* written by consume before anything reads it.
FreshBuf == [k |-> NullCell, v |-> NullCell]

\* Row footprint in bytes: two cells of one byte each.
_schema_size == 2

\* ------------------------------------------------------------- comparator
\* Order of two cells of the key column: null before every value, values
\* in numeric order.  -1, 0, 1 as the comparator returns them.
compare_cell(l, r) ==
    IF l.null /\ r.null THEN 0
    ELSE IF l.null THEN -1
    ELSE IF r.null THEN 1
    ELSE IF l.val < r.val THEN -1
    ELSE IF l.val > r.val THEN 1
    ELSE 0

\* compare_row looks at the key columns only.
compare_row(lhs_row, rhs_row) == compare_cell(lhs_row.k, rhs_row.k)

\* Variant of the comparator with its operands exchanged.
RowCursorComparatorSwapped(m, left, right) == compare_row(m[right], m[left])

\* Variant of the comparator that reads the value column as a key column.
RowCursorComparatorWholeRow(m, left, right) ==
    IF compare_row(m[left], m[right]) # 0
        THEN compare_row(m[left], m[right])
        ELSE compare_cell(m[left].v, m[right].v)

\* RowCursorComparator::operator(): both buffers read under the schema.
RowCursorComparator(m, left, right) == compare_row(m[left], m[right])

\* ------------------------------------------------------------ aggregation
\* SUM of a resident cell and a new cell: a null source leaves the resident
\* cell alone, a null resident takes the source.
agg_sum(dst, src) ==
    IF src.null THEN dst
    ELSE IF dst.null THEN src
    ELSE ValueCell(dst.val + src.val)

\* REPLACE: the resident cell becomes the new cell.
agg_replace(dst, src) == src

\* The merge of a new row into the resident row with the equal key; the key
\* column is not touched.
agg_update_row(keys_type, dst_row, src_row) ==
    IF keys_type = AGG_KEYS
        THEN [dst_row EXCEPT !.v = agg_sum(dst_row.v, src_row.v)]
        ELSE [dst_row EXCEPT !.v = agg_replace(dst_row.v, src_row.v)]

\* Flush-time finalize: SUM, REPLACE and unaggregated columns keep no
\* running state apart from their value, the row's cells stay as they are.
agg_finalize_row(row) == row

\* -------------------------------------------------------------- skip list
\* Position of the first resident whose key is not less than that of h
\* (Len(list) + 1 when there is none).
RECURSIVE FindGreaterOrEqual(_, _, _, _)
FindGreaterOrEqual(list, m, h, i) ==
    IF i > Len(list) THEN i
    ELSE IF RowCursorComparator(m, list[i], h) >= 0 THEN i
    ELSE FindGreaterOrEqual(list, m, h, i + 1)

\* One past the last resident whose key is not greater than that of h.
RECURSIVE FindGreater(_, _, _, _)
FindGreater(list, m, h, i) ==
    IF i > Len(list) THEN i
    ELSE IF RowCursorComparator(m, list[i], h) > 0 THEN i
    ELSE FindGreater(list, m, h, i + 1)

InsertAt(list, p, h) ==
    SubSeq(list, 1, p - 1) \o << h >> \o SubSeq(list, p, Len(list))

\* The outcomes of SkipList::Insert(key, &overwritten, keys_type) for the
\* buffer h.  A table that is not DUP_KEYS and holds a resident x with the
\* equal key merges h's row into x and reports overwritten; otherwise h
\* becomes a new node.  Among equal keys of a DUP_KEYS table the place of the
\* new node is left open: before, between or after them.
SkipListInsert(list, m, h, keys_type) ==
    LET x == FindGreaterOrEqual(list, m, h, 1)
        y == FindGreater(list, m, h, 1)
        found == x <= Len(list) /\ RowCursorComparator(m, list[x], h) = 0
    IN  IF keys_type # DUP_KEYS /\ found
        THEN { [list |-> list,
                mem |-> [m EXCEPT ![list[x]] =
                            agg_update_row(keys_type, m[list[x]], m[h])],
                overwritten |-> TRUE] }
        ELSE { [list |-> InsertAt(list, p, h), mem |-> m,
                overwritten |-> FALSE] : p \in x..y }

\* -------------------------------------------------------------- mem pool
\* MemPool::allocate(size): a new buffer, charged to the tracker.
allocate(m) == Append(m, FreshBuf)

consume_bytes(c, size) == c + size

\* The shared budget of the parent tracker the memtable's tracker reports
\* into: room for two row buffers.
MemLimit == 2 * _schema_size

\* The tracker's signal that the budget is exceeded.  The pool's allocate
\* hands out the buffer all the same.
LimitExceeded(c) == c > MemLimit

\* ---------------------------------------------------------------- events
\* One entry of the call log: agg_finalize_row on buffer h, the writer's
\* add_row on buffer h with the row it was shown, or the writer's flush.
\* ok is the status the call returned.
Event(op, h, row, ok) == [op |-> op, h |-> h, row |-> row, ok |-> ok]

NoInsert == [called |-> FALSE, buf |-> 0, overwritten |-> FALSE,
             limit_exceeded |-> FALSE, result |-> "void"]

NoFlush == [called |-> FALSE, from |-> 0, inserts |-> 0, list |-> << >>,
            rows |-> << >>, fail |-> 0, status |-> OLAP_SUCCESS]

\* ----------------------------------------------------------------- insert
\* Field::consume for one cell: the null indicator and the slot's value.
consume(cell, value, is_null) ==
    IF is_null THEN NullCell ELSE ValueCell(value)

\* Variant of the decode loop that stops one column short: the value column
\* of the scratch row keeps what it held.
consume_row_short(row, tuple) ==
    [k |-> consume(row.k, tuple.k.val, tuple.k.null),
     v |-> row.v]

\* Variant of the decode loop that passes over a null slot: the cell keeps
\* what the buffer held.
consume_row_skip_null(row, tuple) ==
    [k |-> IF tuple.k.null THEN row.k
                           ELSE consume(row.k, tuple.k.val, tuple.k.null),
     v |-> IF tuple.v.null THEN row.v
                           ELSE consume(row.v, tuple.v.val, tuple.v.null)]

\* The decode loop of insert over the slot descriptors: every column of the
\* scratch row takes the tuple's slot.
consume_row(row, tuple) ==
    [k |-> consume(row.k, tuple.k.val, tuple.k.null),
     v |-> consume(row.v, tuple.v.val, tuple.v.null)]

\* Variant of insert that keeps its scratch buffer after the index took it.
InsertStepNoAlloc(m, tb, list, c, keys_type, tuple) ==
    LET m1 == [m EXCEPT ![tb] = consume_row(m[tb], tuple)]
    IN  { [mem |-> r.mem, tuple_buf |-> tb, list |-> r.list, consumption |-> c,
           overwritten |-> r.overwritten]
          : r \in SkipListInsert(list, m1, tb, keys_type) }

\* Variant of insert that does not hand its keys type to the index, which
\* then merges equal keys on every table.
InsertStepNoKeysType(m, tb, list, c, keys_type, tuple) ==
    LET m1 == [m EXCEPT ![tb] = consume_row(m[tb], tuple)]
    IN  { IF ~r.overwritten
            THEN [mem |-> allocate(r.mem), tuple_buf |-> Len(r.mem) + 1,
                  list |-> r.list, consumption |-> consume_bytes(c, _schema_size),
                  overwritten |-> FALSE]
            ELSE [mem |-> r.mem, tuple_buf |-> tb,
                  list |-> r.list, consumption |-> c, overwritten |-> TRUE]
          : r \in SkipListInsert(list, m1, tb, UNIQUE_KEYS) }

\* Variant of insert that gives the unused scratch buffer's bytes back to
\* the tracker when the index merged the row.
InsertStepReleaseOnMerge(m, tb, list, c, keys_type, tuple) ==
    LET m1 == [m EXCEPT ![tb] = consume_row(m[tb], tuple)]
    IN  { IF ~r.overwritten
            THEN [mem |-> allocate(r.mem), tuple_buf |-> Len(r.mem) + 1,
                  list |-> r.list, consumption |-> consume_bytes(c, _schema_size),
                  overwritten |-> FALSE]
            ELSE [mem |-> r.mem, tuple_buf |-> tb,
                  list |-> r.list, consumption |-> c - _schema_size,
                  overwritten |-> TRUE]
          : r \in SkipListInsert(list, m1, tb, keys_type) }

\* Variant of insert that leaves the tuple out when the allocation it would
\* need takes the tracker over the budget.
InsertStepDropOverLimit(m, tb, list, c, keys_type, tuple) ==
    LET m1 == [m EXCEPT ![tb] = consume_row(m[tb], tuple)]
    IN  { IF ~r.overwritten
            THEN IF LimitExceeded(consume_bytes(c, _schema_size))
                    THEN [mem |-> m1, tuple_buf |-> tb, list |-> list,
                          consumption |-> c, overwritten |-> FALSE]
                    ELSE [mem |-> allocate(r.mem), tuple_buf |-> Len(r.mem) + 1,
                          list |-> r.list,
                          consumption |-> consume_bytes(c, _schema_size),
                          overwritten |-> FALSE]
            ELSE [mem |-> r.mem, tuple_buf |-> tb,
                  list |-> r.list, consumption |-> c, overwritten |-> TRUE]
          : r \in SkipListInsert(list, m1, tb, keys_type) }

\* Variant of insert that takes a new scratch buffer on every call.
InsertStepAlwaysAlloc(m, tb, list, c, keys_type, tuple) ==
    LET m1 == [m EXCEPT ![tb] = consume_row(m[tb], tuple)]
    IN  { [mem |-> allocate(r.mem), tuple_buf |-> Len(r.mem) + 1,
           list |-> r.list, consumption |-> consume_bytes(c, _schema_size),
           overwritten |-> r.overwritten]
          : r \in SkipListInsert(list, m1, tb, keys_type) }

\* Variant of insert with the test of overwritten inverted.
InsertStepAllocOnMerge(m, tb, list, c, keys_type, tuple) ==
    LET m1 == [m EXCEPT ![tb] = consume_row(m[tb], tuple)]
    IN  { IF r.overwritten
            THEN [mem |-> allocate(r.mem), tuple_buf |-> Len(r.mem) + 1,
                  list |-> r.list,
                  consumption |-> consume_bytes(c, _schema_size),
                  overwritten |-> TRUE]
            ELSE [mem |-> r.mem, tuple_buf |-> tb,
                  list |-> r.list, consumption |-> c, overwritten |-> FALSE]
          : r \in SkipListInsert(list, m1, tb, keys_type) }

\* Variant of insert that allocates but does not store the new buffer in
\* _tuple_buf.
InsertStepLostAlloc(m, tb, list, c, keys_type, tuple) ==
    LET m1 == [m EXCEPT ![tb] = consume_row(m[tb], tuple)]
    IN  { IF ~r.overwritten
            THEN [mem |-> allocate(r.mem), tuple_buf |-> tb,
                  list |-> r.list,
                  consumption |-> consume_bytes(c, _schema_size),
                  overwritten |-> FALSE]
            ELSE [mem |-> r.mem, tuple_buf |-> tb,
                  list |-> r.list, consumption |-> c, overwritten |-> TRUE]
          : r \in SkipListInsert(list, m1, tb, keys_type) }

\* MemTable::insert from the state (m, tb, list, c): the outcomes, one per
\* outcome of the skip list's Insert.
InsertStep(m, tb, list, c, keys_type, tuple) ==
    LET m1 == [m EXCEPT ![tb] = consume_row(m[tb], tuple)]
    IN  { IF ~r.overwritten
            THEN [mem |-> allocate(r.mem), tuple_buf |-> Len(r.mem) + 1,
                  list |-> r.list, consumption |-> consume_bytes(c, _schema_size),
                  overwritten |-> FALSE]
            ELSE [mem |-> r.mem, tuple_buf |-> tb,
                  list |-> r.list, consumption |-> c, overwritten |-> TRUE]
          : r \in SkipListInsert(list, m1, tb, keys_type) }

\* Variant of insert's return that hands the tracker's signal to the caller.
InsertReturnStatus(limit_exceeded) ==
    IF limit_exceeded THEN "OLAP_ERR_MEM_LIMIT" ELSE "void"

\* What insert returns to its caller: it is declared void, whatever its
\* collaborators signalled.
InsertReturn(limit_exceeded) == "void"

insert(tuple) ==
    /\ Len(inserted) + flush_calls < MaxOps
    /\ \E r \in InsertStep(mem, _tuple_buf, _skip_list, consumption,
                           _keys_type, tuple) :
          /\ mem' = r.mem
          /\ _tuple_buf' = r.tuple_buf
          /\ _skip_list' = r.list
          /\ consumption' = r.consumption
          /\ LET signal == r.consumption # consumption
                              /\ LimitExceeded(r.consumption)
             IN  insert_ret' = [called |-> TRUE, buf |-> _tuple_buf,
                                overwritten |-> r.overwritten,
                                limit_exceeded |-> signal,
                                result |-> InsertReturn(signal)]
    /\ inserted' = Append(inserted, tuple)
    /\ UNCHANGED << _keys_type, trace, flush_calls, last_flush >>

\* ------------------------------------------------------------------ flush
\* The loop of MemTable::flush from position i of the iterator, then the
\* writer's flush.  fail is the writer call that returns an error: the
\* add_row of the fail-th record, the final flush when fail = Len(list) + 1,
\* none when fail = 0.  RETURN_NOT_OK leaves at the first error.
RECURSIVE FlushFrom(_, _, _, _, _)
FlushFrom(list, i, m, tr, fail) ==
    IF i > Len(list)
    THEN LET ok == fail # Len(list) + 1
         IN  [mem |-> m,
              trace |-> Append(tr, Event("flush", 0, FreshBuf, ok)),
              status |-> IF ok THEN OLAP_SUCCESS ELSE OLAP_ERR_WRITER]
    ELSE LET h == list[i]
             m2 == [m EXCEPT ![h] = agg_finalize_row(m[h])]
             ok == fail # i
             tr2 == tr \o << Event("finalize", h, m2[h], TRUE),
                             Event("add_row", h, m2[h], ok) >>
         IN  IF ~ok
             THEN [mem |-> m2, trace |-> tr2, status |-> OLAP_ERR_WRITER]
             ELSE FlushFrom(list, i + 1, m2, tr2, fail)

\* Variant of the flush loop that drops the status of add_row and goes on
\* to the next record.
RECURSIVE FlushFromIgnoreStatus(_, _, _, _, _)
FlushFromIgnoreStatus(list, i, m, tr, fail) ==
    IF i > Len(list)
    THEN LET ok == fail # Len(list) + 1
         IN  [mem |-> m,
              trace |-> Append(tr, Event("flush", 0, FreshBuf, ok)),
              status |-> IF ok THEN OLAP_SUCCESS ELSE OLAP_ERR_WRITER]
    ELSE LET h == list[i]
             m2 == [m EXCEPT ![h] = agg_finalize_row(m[h])]
             tr2 == tr \o << Event("finalize", h, m2[h], TRUE),
                             Event("add_row", h, m2[h], fail # i) >>
         IN  FlushFromIgnoreStatus(list, i + 1, m2, tr2, fail)

FlushRunIgnoreStatus(list, m, tr, fail) ==
    FlushFromIgnoreStatus(list, 1, m, tr, fail)

\* Variant of flush whose iterator is advanced once before the loop.
FlushRunSkipFirst(list, m, tr, fail) == FlushFrom(list, 2, m, tr, fail)

\* Variant of flush that returns at once when the index is empty.
FlushRunSkipEmpty(list, m, tr, fail) ==
    IF Len(list) = 0
        THEN [mem |-> m, trace |-> tr, status |-> OLAP_SUCCESS]
        ELSE FlushFrom(list, 1, m, tr, fail)

\* Variant of the flush loop that hands the row to the writer before it
\* finalizes it.
RECURSIVE FlushFromAddFirst(_, _, _, _, _)
FlushFromAddFirst(list, i, m, tr, fail) ==
    IF i > Len(list)
    THEN LET ok == fail # Len(list) + 1
         IN  [mem |-> m,
              trace |-> Append(tr, Event("flush", 0, FreshBuf, ok)),
              status |-> IF ok THEN OLAP_SUCCESS ELSE OLAP_ERR_WRITER]
    ELSE LET h == list[i]
             m2 == [m EXCEPT ![h] = agg_finalize_row(m[h])]
             ok == fail # i
             tr2 == tr \o << Event("add_row", h, m[h], ok),
                             Event("finalize", h, m2[h], TRUE) >>
         IN  IF ~ok
             THEN [mem |-> m2, trace |-> tr2, status |-> OLAP_ERR_WRITER]
             ELSE FlushFromAddFirst(list, i + 1, m2, tr2, fail)

FlushRunAddFirst(list, m, tr, fail) == FlushFromAddFirst(list, 1, m, tr, fail)

\* Variant of the flush loop that leaves the loop at a failed add_row and
\* goes on to the writer's flush.
RECURSIVE FlushFromBreak(_, _, _, _, _)
FlushFromBreak(list, i, m, tr, fail) ==
    IF i > Len(list)
    THEN LET ok == fail # Len(list) + 1
         IN  [mem |-> m,
              trace |-> Append(tr, Event("flush", 0, FreshBuf, ok)),
              status |-> IF ok THEN OLAP_SUCCESS ELSE OLAP_ERR_WRITER]
    ELSE LET h == list[i]
             m2 == [m EXCEPT ![h] = agg_finalize_row(m[h])]
             ok == fail # i
             tr2 == tr \o << Event("finalize", h, m2[h], TRUE),
                             Event("add_row", h, m2[h], ok) >>
         IN  IF ~ok
             THEN [mem |-> m2,
                   trace |-> Append(tr2, Event("flush", 0, FreshBuf, TRUE)),
                   status |-> OLAP_ERR_WRITER]
             ELSE FlushFromBreak(list, i + 1, m2, tr2, fail)

FlushRunBreak(list, m, tr, fail) == FlushFromBreak(list, 1, m, tr, fail)

\* MemTable::flush: SeekToFirst, the loop, the status it returns.
FlushRun(list, m, tr, fail) == FlushFrom(list, 1, m, tr, fail)

FlushBody(fail) ==
    LET r == FlushRun(_skip_list, mem, trace, fail)
    IN  /\ mem' = r.mem
        /\ trace' = r.trace
        /\ flush_calls' = flush_calls + 1
        /\ last_flush' = [called |-> TRUE, from |-> Len(trace),
                          inserts |-> Len(inserted),
                          list |-> _skip_list,
                          rows |-> [i \in 1..Len(_skip_list) |-> mem[_skip_list[i]]],
                          fail |-> fail, status |-> r.status]
        /\ UNCHANGED << _keys_type, _tuple_buf, _skip_list, consumption,
                       inserted, insert_ret >>

flush ==
    /\ Len(inserted) + flush_calls < MaxOps
    /\ \E fail \in 0..(Len(_skip_list) + 1) : FlushBody(fail)

\* MemTable::close returns flush().
close ==
    /\ Len(inserted) + flush_calls < MaxOps
    /\ \E fail \in 0..(Len(_skip_list) + 1) : FlushBody(fail)

\* MemTable::memory_usage
memory_usage == consumption

\* ------------------------------------------------------------------ spec
\* The state the constructor leaves: the tracker charged for the first
\* scratch buffer, an empty skip list.
Init ==
    /\ _keys_type \in KeysType
    /\ mem = allocate(<< >>)
    /\ _tuple_buf = 1
    /\ _skip_list = << >>
    /\ consumption = consume_bytes(0, _schema_size)
    /\ trace = << >>
    /\ inserted = << >>
    /\ flush_calls = 0
    /\ last_flush = NoFlush
    /\ insert_ret = NoInsert

Next ==
    \/ \E tuple \in Tuples : insert(tuple)
    \/ flush
    \/ close

Spec == Init /\ [][Next]_vars

\* ============================================================ properties
\* The calls of the most recent flush/close call, in call order.
LastFlushCalls == SubSeq(trace, last_flush.from + 1, Len(trace))

IsAddRow(e) == e.op = "add_row"
IsWriterCall(e) == e.op # "finalize"

\* The add_row calls and all writer calls of the most recent flush.
LastAddRows == SelectSeq(LastFlushCalls, IsAddRow)
LastWriterCalls == SelectSeq(LastFlushCalls, IsWriterCall)

\* Number of entries of the call log with operation op on buffer h.
CountCalls(op, h) ==
    Cardinality({i \in 1..Len(trace) : trace[i].op = op /\ trace[i].h = h})

\* The row a tuple decodes to.
RowOf(tuple) == [k |-> tuple.k, v |-> tuple.v]

\* Positions of the inserts that carried the key cell key.
InsertsOf(key) == {i \in 1..Len(inserted) : inserted[i].k = key}

\* C1: the records one flush passes to the writer's add_row are in
\* non-decreasing key order under the key comparator.
C1_FlushAscending ==
    \A i, j \in 1..Len(LastAddRows) :
        i < j => compare_row(LastAddRows[i].row, LastAddRows[j].row) <= 0

\* A flush handed over two records of increasing key that arrived in
\* decreasing key order.
C1_Witness ==
    /\ last_flush.called
    /\ Len(inserted) >= 2
    /\ compare_cell(inserted[1].k, inserted[2].k) > 0
    /\ Len(LastAddRows) >= 2
    /\ compare_row(LastAddRows[1].row, LastAddRows[2].row) < 0

\* C2: when the writer fails the k-th call of a flush, the flush returns the
\* failure, that call is the last call the writer receives from the flush
\* (no retry, nothing after it), and the calls before it are the add_row
\* calls of records 1..k-1 in order followed by the failing call on record
\* k itself (no skip).
C2_FailureStopsFlush ==
    (last_flush.called /\ last_flush.fail # 0) =>
        LET k == last_flush.fail
            n == Len(last_flush.list)
            w == LastWriterCalls
        IN  /\ last_flush.status # OLAP_SUCCESS
            /\ Len(w) = k
            /\ \A i \in 1..(k - 1) :
                  w[i].op = "add_row" /\ w[i].h = last_flush.list[i] /\ w[i].ok
            /\ ~w[k].ok
            /\ IF k <= n
                  THEN w[k].op = "add_row" /\ w[k].h = last_flush.list[k]
                  ELSE w[k].op = "flush"

\* A flush whose add_row failed on a record that has records before and
\* after it.
C2_Witness ==
    /\ last_flush.called
    /\ last_flush.fail >= 2
    /\ last_flush.fail < Len(last_flush.list)

\* C3: over the life of a memtable whose writer calls all succeed, add_row
\* is called exactly once for each resident record, the writer's flush is
\* called exactly once, and it comes after the last add_row.  Looked at when
\* a flush or close call has returned and no insert came after it.
C3_OnceOverLife ==
    (/\ last_flush.called
     /\ last_flush.inserts = Len(inserted)
     /\ \A i \in 1..Len(trace) : trace[i].ok) =>
        /\ Cardinality({i \in 1..Len(trace) : trace[i].op = "flush"}) = 1
        /\ \A i \in 1..Len(_skip_list) : CountCalls("add_row", _skip_list[i]) = 1
        /\ trace[Len(trace)].op = "flush"

\* C4: once a flush or close call has begun, no insert adds a record to the
\* index or merges one into a resident record.
C4_NoInsertAfterFlush ==
    [][flush_calls >= 1 =>
          /\ _skip_list' = _skip_list
          /\ \A i \in 1..Len(_skip_list) :
                mem'[_skip_list[i]] = mem[_skip_list[i]]]_vars

\* The sum of the non-null values of the inserts at the positions in S, null
\* when there is none.
RECURSIVE SumOfInserts(_)
SumOfInserts(S) ==
    IF S = {} THEN NullCell
    ELSE LET i == CHOOSE x \in S : TRUE
             rest == SumOfInserts(S \ {i})
         IN  IF inserted[i].v.null THEN rest
             ELSE IF rest.null THEN inserted[i].v
             ELSE ValueCell(inserted[i].v.val + rest.val)

\* The resident records carry pairwise different keys, and their keys are
\* the keys that were inserted.
OneResidentPerKey ==
    /\ \A i, j \in 1..Len(_skip_list) :
          i # j => mem[_skip_list[i]].k # mem[_skip_list[j]].k
    /\ {mem[_skip_list[i]].k : i \in 1..Len(_skip_list)}
          = {inserted[i].k : i \in 1..Len(inserted)}

\* C5: on an aggregate-key table with a SUM value column the index holds
\* one resident record per distinct inserted key, and its finalized value is
\* the sum of the values inserted with that key.
C5_AggregateSum ==
    _keys_type = AGG_KEYS =>
        /\ OneResidentPerKey
        /\ \A i \in 1..Len(_skip_list) :
              LET row == agg_finalize_row(mem[_skip_list[i]])
              IN  row.v = SumOfInserts(InsertsOf(row.k))

\* (1,1) then (1,2) on an aggregate-key table: one resident record, value 3.
C5_Witness ==
    /\ _keys_type = AGG_KEYS
    /\ Len(inserted) = 2
    /\ inserted[1] = [k |-> ValueCell(1), v |-> ValueCell(1)]
    /\ inserted[2] = [k |-> ValueCell(1), v |-> ValueCell(2)]
    /\ Len(_skip_list) = 1
    /\ mem[_skip_list[1]].v = ValueCell(3)

\* C6: on a unique-key table the index holds one resident record per
\* distinct inserted key, and its value is that of the latest insert with
\* that key.
C6_UniqueLastWins ==
    _keys_type = UNIQUE_KEYS =>
        /\ OneResidentPerKey
        /\ \A i \in 1..Len(_skip_list) :
              LET row == mem[_skip_list[i]]
                  S == InsertsOf(row.k)
                  last == CHOOSE x \in S : \A y \in S : y <= x
              IN  row.v = inserted[last].v

\* (1,1) then (1,2) on a unique-key table: one resident record (1,2).
C6_Witness ==
    /\ _keys_type = UNIQUE_KEYS
    /\ Len(inserted) = 2
    /\ inserted[1] = [k |-> ValueCell(1), v |-> ValueCell(1)]
    /\ inserted[2] = [k |-> ValueCell(1), v |-> ValueCell(2)]
    /\ Len(_skip_list) = 1
    /\ mem[_skip_list[1]] = [k |-> ValueCell(1), v |-> ValueCell(2)]

\* C7: on a duplicate-key table the n inserts are n resident records, the
\* i-th insert's record in the i-th buffer with the key and value of that
\* insert, and a successful flush passes every record that was resident
\* when it began to the writer.
C7_DuplicateKeepsAll ==
    _keys_type = DUP_KEYS =>
        /\ Len(_skip_list) = Len(inserted)
        /\ {_skip_list[i] : i \in 1..Len(_skip_list)} = 1..Len(inserted)
        /\ \A i \in 1..Len(inserted) : mem[i] = RowOf(inserted[i])
        /\ (last_flush.called /\ last_flush.status = OLAP_SUCCESS) =>
              /\ Len(LastAddRows) = Len(last_flush.list)
              /\ \A i \in 1..Len(LastAddRows) :
                    LastAddRows[i].h = last_flush.list[i]

\* (1,1) then (1,2) on a duplicate-key table, then a successful flush that
\* passed both records.
C7_Witness ==
    /\ _keys_type = DUP_KEYS
    /\ Len(inserted) = 2
    /\ inserted[1] = [k |-> ValueCell(1), v |-> ValueCell(1)]
    /\ inserted[2] = [k |-> ValueCell(1), v |-> ValueCell(2)]
    /\ last_flush.called /\ last_flush.status = OLAP_SUCCESS
    /\ Len(LastAddRows) = 2
    /\ LastAddRows[1].row.k = LastAddRows[2].row.k

\* C8: after a successful flush the rows the writer recorded are, record
\* for record and column for column, the finalized rows of the resident
\* records in key order as they stood when the flush began.
C8_RoundTrip ==
    (last_flush.called /\ last_flush.status = OLAP_SUCCESS) =>
        /\ Len(LastAddRows) = Len(last_flush.rows)
        /\ \A i \in 1..Len(LastAddRows) :
              LastAddRows[i].row = agg_finalize_row(last_flush.rows[i])

\* A successful flush of an aggregate-key table with two resident records,
\* one of them merged from two inserts.
C8_Witness ==
    /\ _keys_type = AGG_KEYS
    /\ last_flush.called /\ last_flush.status = OLAP_SUCCESS
    /\ Len(last_flush.rows) = 2
    /\ last_flush.inserts = 3
    /\ \E i \in 1..2 : last_flush.rows[i].v = ValueCell(3)

\* C9: memory_usage() never decreases across an operation.
C9_MemoryUsageMonotonic == [][memory_usage' >= memory_usage]_vars

\* Inserts that allocated, an insert that merged and a flush have happened.
C9_Witness ==
    /\ flush_calls >= 1
    /\ Len(inserted) = 3
    /\ Len(_skip_list) = 2
    /\ memory_usage = 3 * _schema_size

\* C10: agg_finalize_row is applied at most once to each resident record
\* over the life of the memtable.
C10_FinalizeAtMostOnce ==
    \A h \in 1..Len(mem) : CountCalls("finalize", h) <= 1

\* The tuple of the insert call that a step takes, and whether the step is
\* an insert call.
IsInsertStep == inserted' # inserted
StepTuple == inserted'[Len(inserted')]

C12_EmptyFlush ==
    (last_flush.called /\ last_flush.inserts = 0 /\ last_flush.fail = 0) =>
        /\ last_flush.status = OLAP_SUCCESS
        /\ Len(LastFlushCalls) = 1
        /\ LastFlushCalls[1].op = "flush"
        /\ LastFlushCalls[1].ok

\* The first call on the memtable was a flush and the writer did not fail.
C12_Witness ==
    /\ last_flush.called
    /\ last_flush.inserts = 0
    /\ last_flush.fail = 0
    /\ flush_calls = 1

\* C13: whatever the tracked consumption, after insert returns the record
\* of its tuple is a new resident of the index or has been merged into the
\* resident record with the equal key.
C13_NeverDrops ==
    [][IsInsertStep =>
          \/ /\ Len(_skip_list') = Len(_skip_list) + 1
             /\ \A i \in 1..Len(_skip_list) : _skip_list[i] # _tuple_buf
             /\ \E i \in 1..Len(_skip_list') : _skip_list'[i] = _tuple_buf
             /\ mem'[_tuple_buf] = RowOf(StepTuple)
          \/ /\ _skip_list' = _skip_list
             /\ \E i \in 1..Len(_skip_list) :
                   LET h == _skip_list[i]
                   IN  /\ mem[h].k = StepTuple.k
                       /\ mem'[h] = agg_update_row(_keys_type, mem[h],
                                                   RowOf(StepTuple))]_vars

\* Three records are resident, the last of them inserted while the tracker
\* was over the budget.
C13_Witness ==
    /\ insert_ret.called
    /\ insert_ret.limit_exceeded
    /\ Len(_skip_list) = 3
    /\ LimitExceeded(memory_usage)

\* C14: insert takes a new scratch buffer of _schema_size bytes from the
\* pool exactly when the index did not report overwritten; when it did,
\* insert allocates nothing and _tuple_buf stays the buffer the next insert
\* decodes into.
C14_AllocIffNotOverwritten ==
    [][IsInsertStep =>
          IF insert_ret'.overwritten
          THEN /\ Len(mem') = Len(mem)
               /\ consumption' = consumption
               /\ _tuple_buf' = _tuple_buf
          ELSE /\ Len(mem') = Len(mem) + 1
               /\ consumption' = consumption + _schema_size
               /\ _tuple_buf' = Len(mem')]_vars

\* An insert that merged, after inserts that did not.
C14_Witness ==
    /\ insert_ret.called
    /\ insert_ret.overwritten
    /\ Len(inserted) = 3
    /\ Len(_skip_list) = 2

\* C15: between operations the scratch buffer is a buffer of the pool that
\* is no resident of the index, no buffer is resident twice, and the pool
\* has handed out one row buffer more than there are resident records.
C15_OneScratchBuffer ==
    /\ _tuple_buf \in 1..Len(mem)
    /\ \A i \in 1..Len(_skip_list) : _skip_list[i] # _tuple_buf
    /\ \A i, j \in 1..Len(_skip_list) : i # j => _skip_list[i] # _skip_list[j]
    /\ Len(mem) = Len(_skip_list) + 1

\* Two resident records, then an insert that merged and left the scratch
\* buffer in use.
C15_Witness ==
    /\ insert_ret.called
    /\ insert_ret.overwritten
    /\ insert_ret.buf = _tuple_buf
    /\ Len(_skip_list) = 2
    /\ Len(mem) = 3

\* C16: every add_row call is preceded directly by the agg_finalize_row call
\* on the same buffer, and the row the writer is shown is the finalized row.
C16_FinalizeBeforeAddRow ==
    \A i \in 1..Len(trace) :
        trace[i].op = "add_row" =>
            /\ i > 1
            /\ trace[i - 1].op = "finalize"
            /\ trace[i - 1].h = trace[i].h
            /\ trace[i].row = trace[i - 1].row

\* A flush that passed two records to the writer.
C16_Witness ==
    /\ last_flush.called
    /\ Len(LastAddRows) = 2
    /\ LastAddRows[1].h # LastAddRows[2].h

\* The index is in non-decreasing key order.
IndexSorted ==
    \A i, j \in 1..Len(_skip_list) :
        i < j => compare_row(mem[_skip_list[i]], mem[_skip_list[j]]) <= 0

\* C17: no operation changes the key column of a resident record, and the
\* index is in key order after every operation.
C17_KeysNeverChange ==
    [][/\ \A i \in 1..Len(_skip_list) :
             mem'[_skip_list[i]].k = mem[_skip_list[i]].k
       /\ IndexSorted']_vars

\* Two resident records of different keys, one of them merged into, and a
\* flush that finalized them.
C17_Witness ==
    /\ _keys_type # DUP_KEYS
    /\ Len(inserted) = 3
    /\ Len(_skip_list) = 2
    /\ flush_calls = 1
    /\ Len(LastAddRows) = 2

\* C18: a flush call calls the writer's flush only if every add_row call of
\* that flush call succeeded.
C18_SealOnlyAfterSuccess ==
    (\E i \in 1..Len(LastFlushCalls) : LastFlushCalls[i].op = "flush") =>
        \A i \in 1..Len(LastAddRows) : LastAddRows[i].ok

\* A flush whose add_row failed on the first of two records.
C18_Witness ==
    /\ last_flush.called
    /\ Len(last_flush.list) = 2
    /\ last_flush.fail = 1
    /\ Len(LastAddRows) = 1

\* C19: the row insert presents to the index is the row of its own tuple,
\* whatever the scratch buffer held from the call before.
C19_RecordFromTupleOnly ==
    [][IsInsertStep => mem'[_tuple_buf] = RowOf(StepTuple)]_vars

\* The second insert merged and left (1,2) in the scratch buffer; the third
\* insert decoded a tuple with a null key and a null value into it.
C19_Witness ==
    /\ _keys_type # DUP_KEYS
    /\ Len(inserted) = 3
    /\ inserted[1].k = inserted[2].k
    /\ inserted[2] = [k |-> ValueCell(1), v |-> ValueCell(2)]
    /\ inserted[3] = [k |-> NullCell, v |-> NullCell]
    /\ insert_ret.buf = 2
    /\ mem[2] = RowOf(inserted[3])

\* The tuples that had been inserted when the most recent flush began.
FlushedInserts == 1..last_flush.inserts

\* C20: on an aggregate-key table with a SUM value column the records a
\* successful flush passes to the writer are fixed by the multiset of the
\* tuples inserted before it, whatever their order: one record per inserted
\* key, in strictly ascending key order, its value the sum of the values
\* inserted with that key.
C20_OrderIndependent ==
    (_keys_type = AGG_KEYS /\ last_flush.called
        /\ last_flush.status = OLAP_SUCCESS) =>
        /\ {LastAddRows[i].row.k : i \in 1..Len(LastAddRows)}
              = {inserted[i].k : i \in FlushedInserts}
        /\ \A i, j \in 1..Len(LastAddRows) :
              i < j => compare_row(LastAddRows[i].row, LastAddRows[j].row) < 0
        /\ \A i \in 1..Len(LastAddRows) :
              LastAddRows[i].row.v =
                  SumOfInserts(InsertsOf(LastAddRows[i].row.k)
                                  \cap FlushedInserts)

\* A successful flush after (1,2), (null,1), (1,1) in this order, which is
\* neither key order nor the order of the values.
C20_Witness ==
    /\ _keys_type = AGG_KEYS
    /\ last_flush.called /\ last_flush.status = OLAP_SUCCESS
    /\ last_flush.inserts = 3
    /\ inserted[1] = [k |-> ValueCell(1), v |-> ValueCell(2)]
    /\ inserted[2] = [k |-> NullCell, v |-> ValueCell(1)]
    /\ inserted[3] = [k |-> ValueCell(1), v |-> ValueCell(1)]
    /\ Len(LastAddRows) = 2
    /\ LastAddRows[2].row.v = ValueCell(3)

====
